---- MODULE Spec2Model ----
(***************************************************************************)
(* Blackjack (Projects/Card_game/main.cpp): Card, Deck, dealerTurn,        *)
(* playerturn and playBlackJack as a state machine.                        *)
(*                                                                         *)
(* The deck is std::array<Card,52> m_cards with the cursor                 *)
(* m_nextCardIndex.  Deck::shuffle() leaves m_cards in an arbitrary        *)
(* permutation; the model draws that permutation one position at a time,   *)
(* when dealCard reads it: the card at the cursor is any card that is not  *)
(* in m_cards[0 .. m_nextCardIndex-1].  The suit of a card reaches no      *)
(* computation of the game (Card::val reads rankCard only), so the part    *)
(* of the deck behind the cursor is kept as the number of cards of each    *)
(* rank it holds (undealt), and the part before the cursor as the sum of   *)
(* each participant's cards with every ace counted as 1 (dealerHard,       *)
(* playerHard).  This is the specification Spec (LiveSpec with fairness). *)
(*                                                                         *)
(* DeckSpec is the Deck class on its own, with the order of the cards:     *)
(* m_cards is the sequence of the 52 Card values, shuffle() and dealCard() *)
(* are its actions.  ShopSpec is the potion shop                           *)
(* (Projects/Potion_shop/main.cpp): Player::buy called from shop().  The   *)
(* three are separate programs or objects: a specification leaves the      *)
(* variables of the others at their initial values, and Spec, which does   *)
(* not keep the order of the cards, has m_cards empty.                     *)
(***************************************************************************)
EXTENDS Integers, Sequences, FiniteSets

\* enum Card::Rank: rank_ace = 0, rank_2 = 1, ..., rank_king = 12, maxRank
maxRank == 13
\* enum Card::Suits: suits_clubs = 0, ..., suits_spades = 3, maxSuits
maxSuits == 4
rank_ace == 0
\* Card::allRank, Card::allSuits
allRank == 0 .. (maxRank - 1)
allSuits == 0 .. (maxSuits - 1)

\* namespace Settings
bustLimit == 21
dealerLimit == 17

\* Card::val(): static constexpr rankVal {11,2,3,4,5,6,7,8,9,10,10,10,10}
rankValMut == <<11, 2, 3, 4, 5, 6, 7, 8, 9, 10, 11, 12, 13>>
rankVal == <<11, 2, 3, 4, 5, 6, 7, 8, 9, 10, 10, 10, 10>>
val(rank) == rankVal[rank + 1]

\* enum Result; result is "None" while playBlackJack has not returned
Result == {"Tie", "Win", "Lose"}

VARIABLES
    m_nextCardIndex,  \* Deck::m_nextCardIndex
    undealt,          \* rank -> number of cards of that rank in m_cards[m_nextCardIndex .. 51]
    dealer,           \* Player dealer: [score, aceCount]
    player,           \* Player player: [score, aceCount]
    dealerHard,       \* sum of the dealer's cards, every ace counted as 1
    playerHard,       \* sum of the player's cards, every ace counted as 1
    choice,           \* the last answer of playerWantHit(): "h", "s", "none" before the first
    playerBust,       \* what playerturn returned (FALSE before it returns)
    dealerBust,       \* what dealerTurn returned (FALSE before it returns)
    assertFailed,     \* dealCard's assert( m_nextCardIndex != 52 ) has failed
    pc,               \* position in playBlackJack (Spec), "Deck" (DeckSpec), "Shop" (ShopSpec)
    result,           \* the Result playBlackJack returned, "None" before
    shuffles,         \* number of calls of Deck::shuffle
    m_cards,          \* Deck::m_cards, the cards in their order (DeckSpec)
    returned,         \* the cards dealCard returned since the last shuffle (DeckSpec)
    m_gold,           \* Player::m_gold (ShopSpec)
    m_inventory,      \* Player::m_inventory (ShopSpec)
    startGold,        \* the m_gold the Player was constructed with (ShopSpec)
    which,            \* shop(): Potion::Type which, the last whichPotion() (ShopSpec)
    success           \* shop(): bool success, what the last buy returned (ShopSpec)

vars == <<m_nextCardIndex, undealt, dealer, player, dealerHard, playerHard, choice,
          playerBust, dealerBust, assertFailed, pc, result, shuffles, m_cards,
          returned, m_gold, m_inventory, startGold, which, success>>

\* the variables of one program, left alone by the others
gameVars == <<dealer, player, dealerHard, playerHard, choice, playerBust, dealerBust,
              result>>
orderVars == <<m_cards, returned>>
shopVars == <<m_gold, m_inventory, startGold, which, success>>

\* struct Player { int score {0}; int aceCount {0}; }
NewPlayer == [score |-> 0, aceCount |-> 0]

\* what a card adds to the sum of a hand in which every ace is counted as 1
HardVal(rank) == IF rank = rank_ace THEN 1 ELSE val(rank)

\* Deck::Deck(): m_cards[count++] = Card{rank,suit} for every suit and every rank
NewDeck == [r \in allRank |-> Cardinality(allSuits)]
\* std::array<Card,52> m_cards
DeckSize == 52

\* Deck::shuffle: m_nextCardIndex = {0}
ShuffleCursorMut == m_nextCardIndex
ShuffleCursor == 0
\* Deck::dealCard: assert( m_nextCardIndex != 52 )
AssertLimitMut == maxSuits - 1
AssertLimit == 52
\* Deck::dealCard: m_nextCardIndex++
AdvanceMut(i) == i + 2
Advance(i) == i + 1
\* Deck::dealCard: the card m_cards[i] can have this rank when u is what lies
\* at and behind position i
AtCursor(u, i, rank) == i < DeckSize /\ u[rank] > 0
Without(u, rank) == [u EXCEPT ![rank] = @ - 1]

\* the ace correction loop of playerturn (limit = bustLimit) and of dealerTurn
\* (limit = dealerLimit):
\*   while (p.score > limit && p.aceCount > 0) { p.score -= 10; p.aceCount--; }
RECURSIVE Correct(_, _)
Correct(p, limit) ==
    IF p.score > limit /\ p.aceCount > 0
    THEN Correct([score |-> p.score - 10, aceCount |-> p.aceCount - 1], limit)
    ELSE p

\* score += card.val(); if (card.val() == 11) aceCount++;
AddCard(p, rank) ==
    [score |-> p.score + val(rank),
     aceCount |-> IF val(rank) = 11 THEN p.aceCount + 1 ELSE p.aceCount]

\* playerturn: the loop condition, the loop body, the test after the loop
PlayerLoopCondMut(p) == p.score <= bustLimit
PlayerLoopCond(p) == p.score < bustLimit
PlayerHitBodyMut(p, rank) == AddCard(p, rank)
PlayerHitBody(p, rank) == Correct(AddCard(p, rank), bustLimit)
PlayerWentBustMut(p) == p.score > bustLimit + 1
PlayerWentBust(p) == p.score > bustLimit

\* dealerTurn: the loop condition, the loop body, the test after the loop
DealerLoopCondMut(d) == d.score <= dealerLimit
DealerLoopCond(d) == d.score < dealerLimit
DealerHitBody(d, rank) == Correct(AddCard(d, rank), dealerLimit)
DealerWentBustMut(d) == d.score > bustLimit
DealerWentBust(d) == d.score > dealerLimit

\* playBlackJack: what it returns when playerturn / dealerTurn returned true
ResultPlayerBust == "Lose"
ResultDealerBustMut == "Lose"
ResultDealerBust == "Win"
\* playBlackJack lines 231-237: the comparison of the scores
CompareScoresMut(p, d) ==
    IF p.score = d.score THEN "Tie"
    ELSE IF p.score < d.score THEN "Win" ELSE "Lose"
CompareScores(p, d) ==
    IF p.score = d.score THEN "Tie"
    ELSE IF p.score > d.score THEN "Win" ELSE "Lose"

\* Potion::Type: healing = 0, mana, speed, invisibility, maxType
maxType == 4
typePotion == 0 .. (maxType - 1)
\* Potion::costPotion {20,30,12,50}
costPotion == <<20, 30, 12, 50>>
cost(type) == costPotion[type + 1]

\* no potion shop is running
ShopIdle ==
    /\ m_gold = 0
    /\ m_inventory = [t \in typePotion |-> 0]
    /\ startGold = 0
    /\ which = maxType
    /\ success = FALSE

\* no game of Blackjack is running
GameIdle ==
    /\ dealer = NewPlayer
    /\ player = NewPlayer
    /\ dealerHard = 0
    /\ playerHard = 0
    /\ choice = "none"
    /\ playerBust = FALSE
    /\ dealerBust = FALSE
    /\ result = "None"

Init ==
    /\ m_nextCardIndex = 0
    /\ undealt = NewDeck
    /\ dealer = NewPlayer
    /\ player = NewPlayer
    /\ dealerHard = 0
    /\ playerHard = 0
    /\ choice = "none"
    /\ playerBust = FALSE
    /\ dealerBust = FALSE
    /\ assertFailed = FALSE
    /\ pc = "Setup"
    /\ result = "None"
    /\ shuffles = 0
    /\ m_cards = << >>
    /\ returned = << >>
    /\ ShopIdle

\* the assertion of dealCard fails: the program is aborted
Abort ==
    /\ assertFailed' = TRUE
    /\ pc' = "Aborted"
    /\ UNCHANGED <<orderVars, shopVars, shuffles, m_nextCardIndex, undealt, dealer,
                   player, dealerHard, playerHard,
                   choice, playerBust, dealerBust, result>>

\* playBlackJack lines 204-211: the deck is built and shuffled, the dealer's
\* initial card is dealt
DealerInitial ==
    /\ pc = "Setup"
    /\ IF ShuffleCursor = AssertLimit THEN Abort ELSE
        /\ \E r \in allRank :
            /\ AtCursor(NewDeck, ShuffleCursor, r)
            /\ undealt' = Without(NewDeck, r)
            /\ dealer' = [dealer EXCEPT !.score = val(r)]
            /\ dealerHard' = dealerHard + HardVal(r)
        /\ shuffles' = shuffles + 1
        /\ m_nextCardIndex' = Advance(ShuffleCursor)
        /\ pc' = "SetupPlayer"
        /\ UNCHANGED <<orderVars, shopVars, player, playerHard, choice, playerBust,
                       dealerBust,
                       assertFailed, result>>

\* playBlackJack lines 214-219: the player's two initial cards are dealt
PlayerInitial ==
    /\ pc = "SetupPlayer"
    /\ IF m_nextCardIndex = AssertLimit \/ Advance(m_nextCardIndex) = AssertLimit
       THEN Abort ELSE
        /\ \E r1 \in allRank :
            /\ AtCursor(undealt, m_nextCardIndex, r1)
            /\ \E r2 \in allRank :
                /\ AtCursor(Without(undealt, r1), Advance(m_nextCardIndex), r2)
                /\ undealt' = Without(Without(undealt, r1), r2)
                /\ player' = [player EXCEPT !.score = val(r1) + val(r2)]
                /\ playerHard' = playerHard + HardVal(r1) + HardVal(r2)
        /\ m_nextCardIndex' = Advance(Advance(m_nextCardIndex))
        /\ pc' = "PlayerTurn"
        /\ UNCHANGED <<orderVars, shopVars, shuffles, dealer, dealerHard, choice,
                       playerBust, dealerBust,
                       assertFailed, result>>

\* playerturn: the loop condition holds and playerWantHit() returns true
\* ('h'): one iteration of the loop
PlayerHit ==
    /\ pc = "PlayerTurn"
    /\ PlayerLoopCond(player)
    /\ IF m_nextCardIndex = AssertLimit THEN Abort ELSE
        /\ choice' = "h"
        /\ \E r \in allRank :
            /\ AtCursor(undealt, m_nextCardIndex, r)
            /\ undealt' = Without(undealt, r)
            /\ player' = PlayerHitBody(player, r)
            /\ playerHard' = playerHard + HardVal(r)
        /\ m_nextCardIndex' = Advance(m_nextCardIndex)
        /\ UNCHANGED <<orderVars, shopVars, shuffles, dealer, dealerHard, playerBust,
                       dealerBust, assertFailed,
                       pc, result>>

\* playerturn leaves the loop, because the loop condition fails (playerWantHit
\* is not called) or because playerWantHit() returns false ('s'), and returns;
\* playBlackJack lines 223-226
PlayerTurnEnd ==
    /\ pc = "PlayerTurn"
    /\ choice' = IF PlayerLoopCond(player) THEN "s" ELSE choice
    /\ playerBust' = PlayerWentBust(player)
    /\ IF PlayerWentBust(player)
       THEN pc' = "Resolved" /\ result' = ResultPlayerBust
       ELSE pc' = "DealerTurn" /\ result' = result
    /\ UNCHANGED <<orderVars, shopVars, shuffles, m_nextCardIndex, undealt, dealer,
                   player, dealerHard, playerHard,
                   dealerBust, assertFailed>>

\* dealerTurn: one iteration of the loop
DealerHit ==
    /\ pc = "DealerTurn"
    /\ DealerLoopCond(dealer)
    /\ IF m_nextCardIndex = AssertLimit THEN Abort ELSE
        /\ \E r \in allRank :
            /\ AtCursor(undealt, m_nextCardIndex, r)
            /\ undealt' = Without(undealt, r)
            /\ dealer' = DealerHitBody(dealer, r)
            /\ dealerHard' = dealerHard + HardVal(r)
        /\ m_nextCardIndex' = Advance(m_nextCardIndex)
        /\ UNCHANGED <<orderVars, shopVars, shuffles, player, playerHard, choice,
                       playerBust, dealerBust,
                       assertFailed, pc, result>>

\* dealerTurn leaves the loop and returns; playBlackJack lines 228-229
DealerTurnEnd ==
    /\ pc = "DealerTurn"
    /\ ~DealerLoopCond(dealer)
    /\ dealerBust' = DealerWentBust(dealer)
    /\ IF DealerWentBust(dealer)
       THEN pc' = "Resolved" /\ result' = ResultDealerBust
       ELSE pc' = "Compare" /\ result' = result
    /\ UNCHANGED <<orderVars, shopVars, shuffles, m_nextCardIndex, undealt, dealer,
                   player, dealerHard, playerHard,
                   choice, playerBust, assertFailed>>

\* playBlackJack lines 231-237: neither turn reported a bust, the scores are
\* compared
Compare ==
    /\ pc = "Compare"
    /\ pc' = "Resolved"
    /\ result' = CompareScores(player, dealer)
    /\ UNCHANGED <<orderVars, shopVars, shuffles, m_nextCardIndex, undealt, dealer,
                   player, dealerHard, playerHard,
                   choice, playerBust, dealerBust, assertFailed>>

Next ==
    \/ DealerInitial
    \/ PlayerInitial
    \/ PlayerHit
    \/ PlayerTurnEnd
    \/ DealerHit
    \/ DealerTurnEnd
    \/ Compare

Spec == Init /\ [][Next]_vars

\* the process runs one game to its end: a step that can be taken is taken
LiveSpec == Init /\ [][Next]_vars /\ WF_vars(Next)

(***************************************************************************)
(* The Deck class with the order of its cards                              *)
(***************************************************************************)

\* how many times shuffle() is called on one deck
MaxShuffles == 2
\* std::shuffle rearranges the first ShuffleSpan cards in every possible way
ShuffleSpan == 3

\* struct Card { Rank rankCard; Suits suitCard; }
Card(rank, suit) == [rankCard |-> rank, suitCard |-> suit]

\* Deck::Deck(): count runs from 0, the suits in the outer loop, the ranks in
\* the inner one: m_cards[count++] = Card{rank,suit}
NewCardsMut ==
    [i \in 1 .. DeckSize |-> Card((i - 1) % maxSuits, (i - 1) \div maxSuits)]
NewCards ==
    [i \in 1 .. DeckSize |-> Card((i - 1) % maxRank, (i - 1) \div maxRank)]

\* Deck::dealCard: m_cards[i] of the array that starts at 0
CardAtMut(cards, i) == cards[IF i + 2 > DeckSize THEN 1 ELSE i + 2]
CardAt(cards, i) == cards[i + 1]

\* Deck::shuffle: the orders std::shuffle(m_cards.begin(), m_cards.end(),
\* Random::mt) can leave the cards in
ShuffleOrders(cards) ==
    { [i \in 1 .. DeckSize |-> IF i <= ShuffleSpan THEN cards[f[i]] ELSE cards[i]] :
        f \in { g \in [1 .. ShuffleSpan -> 1 .. ShuffleSpan] :
                    \A a, b \in 1 .. ShuffleSpan : a # b => g[a] # g[b] } }

\* a Deck has been constructed
DeckInit ==
    /\ m_nextCardIndex = 0
    /\ undealt = NewDeck
    /\ m_cards = NewCards
    /\ returned = << >>
    /\ shuffles = 0
    /\ assertFailed = FALSE
    /\ pc = "Deck"
    /\ GameIdle
    /\ ShopIdle

\* Deck::shuffle()
Shuffle ==
    /\ pc = "Deck"
    /\ shuffles < MaxShuffles
    /\ m_cards' \in ShuffleOrders(m_cards)
    /\ m_nextCardIndex' = ShuffleCursor
    /\ undealt' = NewDeck
    /\ returned' = << >>
    /\ shuffles' = shuffles + 1
    /\ UNCHANGED <<gameVars, shopVars, assertFailed, pc>>

\* Deck::dealCard()
DealCard ==
    /\ pc = "Deck"
    /\ IF m_nextCardIndex = AssertLimit
       THEN /\ assertFailed' = TRUE
            /\ pc' = "Aborted"
            /\ UNCHANGED <<gameVars, shopVars, orderVars, shuffles, m_nextCardIndex,
                           undealt>>
       ELSE /\ returned' = Append(returned, CardAt(m_cards, m_nextCardIndex))
            /\ undealt' = Without(undealt, CardAt(m_cards, m_nextCardIndex).rankCard)
            /\ m_nextCardIndex' = Advance(m_nextCardIndex)
            /\ UNCHANGED <<gameVars, shopVars, m_cards, shuffles, assertFailed, pc>>

DeckNext ==
    \/ Shuffle
    \/ DealCard

DeckSpec == DeckInit /\ [][DeckNext]_vars

(***************************************************************************)
(* The potion shop                                                         *)
(***************************************************************************)

\* Player::Player: m_gold{Random::get(80,120)}
GoldMin == 80
GoldMax == 120

\* Player::buy(type): what it returns and what it leaves in m_gold and
\* m_inventory
buyMutNoCheck(gold, inventory, type) ==
    [ret |-> TRUE, gold |-> gold - cost(type),
     inventory |-> [inventory EXCEPT ![type] = @ + 1]]
buyMutOffByOne(gold, inventory, type) ==
    IF gold <= cost(type)
    THEN [ret |-> FALSE, gold |-> gold, inventory |-> inventory]
    ELSE [ret |-> TRUE, gold |-> gold - cost(type),
          inventory |-> [inventory EXCEPT ![type] = @ + 1]]
buy(gold, inventory, type) ==
    IF gold < cost(type)
    THEN [ret |-> FALSE, gold |-> gold, inventory |-> inventory]
    ELSE [ret |-> TRUE, gold |-> gold - cost(type),
          inventory |-> [inventory EXCEPT ![type] = @ + 1]]

\* main: Player player1 {playerName}; shop(player1) is entered
ShopInit ==
    /\ m_gold \in GoldMin .. GoldMax
    /\ startGold = m_gold
    /\ m_inventory = [t \in typePotion |-> 0]
    /\ which = maxType
    /\ success = FALSE
    /\ pc = "Shop"
    /\ m_nextCardIndex = 0
    /\ undealt = NewDeck
    /\ assertFailed = FALSE
    /\ shuffles = 0
    /\ m_cards = << >>
    /\ returned = << >>
    /\ GameIdle

\* shop(): whichPotion() returns a potion type, player.buy(which) is called
ShopBuy ==
    /\ pc = "Shop"
    /\ \E type \in typePotion :
        /\ which' = type
        /\ success' = buy(m_gold, m_inventory, type).ret
        /\ m_gold' = buy(m_gold, m_inventory, type).gold
        /\ m_inventory' = buy(m_gold, m_inventory, type).inventory
    /\ UNCHANGED <<gameVars, orderVars, m_nextCardIndex, undealt, assertFailed,
                   shuffles, startGold, pc>>

\* shop(): whichPotion() returns Potion::maxType ('q'), shop returns
ShopQuit ==
    /\ pc = "Shop"
    /\ which' = maxType
    /\ pc' = "ShopDone"
    /\ UNCHANGED <<gameVars, orderVars, m_nextCardIndex, undealt, assertFailed,
                   shuffles, m_gold, m_inventory, startGold, success>>

ShopNext ==
    \/ ShopBuy
    \/ ShopQuit

ShopSpec == ShopInit /\ [][ShopNext]_vars

(***************************************************************************)
(* The claims                                                              *)
(***************************************************************************)

\* C1: the dealer is declared bust exactly when the dealer's final total
\* exceeds 21; a dealer whose turn ends at 18, 19, 20 or 21 is not bust and
\* the game is resolved by comparing the totals.
C1_DealerBustOnlyAbove21 ==
    (pc = "Resolved" /\ ~playerBust) =>
        /\ dealerBust <=> dealer.score > bustLimit
        /\ dealer.score \in 18 .. 21 =>
            result = (IF player.score = dealer.score THEN "Tie"
                      ELSE IF player.score > dealer.score THEN "Win" ELSE "Lose")

\* C2: in every reachable state the ace counter of each participant is the
\* number of aces of the hand that are counted as 11, the aces of the initial
\* deal included: the score is the sum of the hand with every ace counted as 1
\* plus 10 for every ace the counter counts.
C2_AceCountIsSoftAces ==
    /\ player.score = playerHard + 10 * player.aceCount
    /\ dealer.score = dealerHard + 10 * dealer.aceCount

\* C3: when playBlackJack reaches the comparison of the scores, the result is
\* Tie iff the totals are equal, Win iff the player's total is greater, Lose
\* otherwise, and it is exactly one of the three.
C3_ComparisonResult ==
    (pc = "Resolved" /\ ~playerBust /\ ~dealerBust) =>
        /\ result \in Result
        /\ result = "Tie" <=> player.score = dealer.score
        /\ result = "Win" <=> player.score > dealer.score
        /\ result = "Lose" <=> player.score < dealer.score

C3_Witness ==
    /\ pc = "Resolved" /\ ~playerBust /\ ~dealerBust
    /\ player.score = 19 /\ player.score > dealer.score /\ result = "Win"

\* C4: once the player's total exceeds 21, the only step of the game is the
\* one that resolves it as Lose: no card is dealt, the dealer's turn is not
\* entered, the dealer's score and ace counter stay what they were.
C4_PlayerBustEndsGame ==
    [][player.score > bustLimit =>
        /\ pc' = "Resolved" /\ result' = "Lose"
        /\ UNCHANGED <<m_nextCardIndex, undealt, dealer, dealerHard>>]_vars

C4_Witness ==
    /\ pc = "Resolved" /\ result = "Lose" /\ playerBust
    /\ player.score = 25 /\ player.aceCount = 0
    /\ m_nextCardIndex = 4 /\ dealer.aceCount = 0

\* C5: the player is declared bust only when the hand exceeds 21 with every
\* ace counted as 1.
C5_BustOnlyIfHardBust ==
    playerBust => playerHard > bustLimit

\* C6: no game deals more than 21 cards; dealCard is never called with the
\* cursor at 52 and its assertion never fails.
C6_AtMost21Cards ==
    /\ m_nextCardIndex <= 21
    /\ ~assertFailed
    /\ pc # "Aborted"

C6_Witness ==
    pc = "Resolved" /\ m_nextCardIndex = 16

\* C7: after each card dealt to the dealer the ace correction is the player's:
\* 10 is subtracted, and the ace counter decremented, only while the total
\* exceeds 21 and the counter is positive.
C7_DealerCorrectsLikePlayer ==
    [][(pc = "DealerTurn" /\ m_nextCardIndex' # m_nextCardIndex) =>
        \E r \in allRank :
            /\ undealt'[r] < undealt[r]
            /\ dealer' = Correct(AddCard(dealer, r), bustLimit)]_vars

\* C8: during the dealer's turn a card is dealt to the dealer iff the dealer's
\* total is below 17; below 17 the next card can always be taken.
C8_DealerHitsIffBelow17 ==
    /\ [][pc = "DealerTurn" =>
            ((m_nextCardIndex' = m_nextCardIndex + 1 /\ dealerHard' > dealerHard)
                <=> dealer.score < 17)]_vars
    /\ []((pc = "DealerTurn" /\ dealer.score < 17) => ENABLED DealerHit)

\* the dealer stands at a 17 reached through an ace correction: the player
\* holds two ten-valued cards, the dealer a ten, a six and an ace
C8_Witness ==
    /\ pc = "Compare" /\ m_nextCardIndex = 5
    /\ player.score = 20 /\ playerHard = 20
    /\ undealt[rank_ace] = maxSuits - 1 /\ undealt[5] = maxSuits - 1
    /\ dealer.score = 17 /\ dealerHard = 17 /\ ~dealerBust

\* C9: if the player's turn ends without a bust and the dealer's turn ends in
\* a dealer bust, the result is Win whatever the player's total is, and the
\* totals are never compared.
C9_DealerBustIsWin ==
    /\ (pc = "Resolved" /\ ~playerBust /\ dealerBust) => result = "Win"
    /\ dealerBust => pc = "Resolved"

C9_Witness ==
    /\ pc = "Resolved" /\ ~playerBust /\ dealerBust
    /\ player.score = 18 /\ dealer.score > bustLimit /\ result = "Win"

\* C10: every game terminates: it reaches Resolved with one of Win, Lose, Tie,
\* and the phases Setup, PlayerTurn, DealerTurn, Resolved are never left for
\* an earlier one.
C10_Terminates ==
    /\ <>(pc = "Resolved" /\ result \in Result)
    /\ [][(<<pc, pc'>>) \in
            {<<"Setup", "SetupPlayer">>, <<"SetupPlayer", "PlayerTurn">>,
             <<"PlayerTurn", "PlayerTurn">>, <<"PlayerTurn", "DealerTurn">>,
             <<"PlayerTurn", "Resolved">>, <<"DealerTurn", "DealerTurn">>,
             <<"DealerTurn", "Compare">>, <<"DealerTurn", "Resolved">>,
             <<"Compare", "Resolved">>}]_vars

\* the player answered hit every time and the game was resolved
C10_Witness ==
    /\ pc = "Resolved" /\ result \in Result
    /\ choice = "h" /\ m_nextCardIndex >= 8

\* C11: playerWantHit is called only when the player's total is below 21: in
\* the player's turn an answer is taken, or a card dealt to the player, only
\* from a state with score < 21; at 21 or above the turn ends unasked.
C11_AskedOnlyBelow21 ==
    [][pc = "PlayerTurn" =>
        /\ (choice' # choice \/ playerHard' # playerHard) => player.score < 21
        /\ player.score >= 21 =>
            (choice' = choice /\ player' = player /\ m_nextCardIndex' = m_nextCardIndex)]_vars

\* the player was dealt 21 and the turn ended without a question
C11_Witness ==
    pc = "DealerTurn" /\ choice = "none" /\ player.score = 21

\* C16: after every completed hit of the player's turn the total does not
\* exceed 21 while the ace counter is positive, the counter is never negative,
\* and a hit changes the total by the card's value less 10 for each correction
\* and the counter by the ace dealt less 1 for each correction.
C16_PlayerCorrection ==
    /\ [](~(player.score > 21 /\ player.aceCount > 0) /\ player.aceCount >= 0)
    /\ [][(pc = "PlayerTurn" /\ playerHard' # playerHard) =>
            \E r \in allRank : \E k \in 0 .. 4 :
                /\ undealt'[r] < undealt[r]
                /\ player'.score = player.score + val(r) - 10 * k
                /\ player'.aceCount =
                       player.aceCount + (IF r = rank_ace THEN 1 ELSE 0) - k
                /\ k > 0 => player.score + val(r) - 10 * (k - 1) > 21]_vars

\* a hit was corrected: the player holds an ace that is counted as 1
C16_Witness ==
    /\ pc = "PlayerTurn" /\ choice = "h"
    /\ player.score = 13 /\ playerHard = 13 /\ player.aceCount = 0
    /\ undealt[rank_ace] = maxSuits - 1 /\ dealerHard # 1

\* C18: when dealerTurn returns without a bust the dealer's total is exactly
\* 17, so a game resolved by comparison is Tie iff the player has 17, Win iff
\* the player has 18 to 21, Lose iff the player has less than 17.
C18_DealerStandsAt17 ==
    /\ (pc = "Compare" \/ (pc = "Resolved" /\ ~playerBust /\ ~dealerBust)) =>
            dealer.score = 17
    /\ (pc = "Resolved" /\ ~playerBust /\ ~dealerBust) =>
            /\ result = "Tie" <=> player.score = 17
            /\ result = "Win" <=> player.score \in 18 .. 21
            /\ result = "Lose" <=> player.score < 17

C18_Witness ==
    /\ pc = "Resolved" /\ ~playerBust /\ ~dealerBust
    /\ player.score = 16 /\ dealer.score = 17 /\ result = "Lose"

\* C12: after shuffle(), whatever the order and the cursor before, the deck
\* holds the same 52 cards, each as often as before, and the cursor is 0.
C12_ShufflePermutes ==
    [][shuffles' # shuffles =>
        /\ m_nextCardIndex' = 0
        /\ Len(m_cards') = 52 /\ Len(m_cards) = 52
        /\ \A r \in allRank : \A s \in allSuits :
            Cardinality({i \in 1 .. 52 : m_cards'[i] = Card(r, s)})
                = Cardinality({i \in 1 .. 52 : m_cards[i] = Card(r, s)})]_vars

\* the second shuffle, of a deck that was in another order than the new one
C12_Witness ==
    /\ shuffles = 2 /\ m_nextCardIndex = 0 /\ returned = << >>
    /\ m_cards # NewCards /\ m_cards[1] = Card(2, 0)

\* C13: 52 consecutive dealCard calls return 52 pairwise distinct cards, each
\* the card at the cursor, each advancing the cursor by one; a call with the
\* cursor at 52 fails the assertion and returns no card.
C13_DealsDistinctCards ==
    /\ [](/\ Len(returned) = m_nextCardIndex
          /\ m_nextCardIndex <= 52
          /\ \A i \in 1 .. Len(returned) : returned[i] = m_cards[i]
          /\ \A i, j \in 1 .. Len(returned) : i # j => returned[i] # returned[j]
          /\ assertFailed => m_nextCardIndex = 52)
    /\ [][(shuffles' = shuffles /\ m_nextCardIndex < 52) =>
            /\ m_nextCardIndex' = m_nextCardIndex + 1
            /\ returned' = Append(returned, m_cards[m_nextCardIndex + 1])
            /\ ~assertFailed']_vars
    /\ [][(shuffles' = shuffles /\ m_nextCardIndex = 52) =>
            (assertFailed' /\ returned' = returned /\ m_nextCardIndex' = 52)]_vars

\* the 53rd call on a shuffled deck
C13_Witness ==
    /\ shuffles = 1 /\ m_cards # NewCards
    /\ Len(returned) = 52 /\ assertFailed

\* C14: a freshly constructed Deck holds 52 cards, every (rank, suit) pair
\* exactly once, in the order of the constructor's loops (ace of clubs first,
\* king of spades last), and its cursor is 0.
C14_FreshDeck ==
    shuffles = 0 =>
        /\ Len(m_cards) = 52
        /\ \A r \in allRank : \A s \in allSuits :
            Cardinality({i \in 1 .. Len(m_cards) : m_cards[i] = Card(r, s)}) = 1
        /\ m_cards[1] = Card(0, 0) /\ m_cards[13] = Card(12, 0)
        /\ m_cards[14] = Card(0, 1) /\ m_cards[52] = Card(12, 3)
        /\ returned = << >> => m_nextCardIndex = 0

\* a fresh deck dealt to its end: the cards come in the constructor's order
C14_Witness ==
    /\ shuffles = 0 /\ Len(returned) = 52
    /\ returned[1] = Card(0, 0) /\ returned[52] = Card(12, 3)

\* C15: for every card of the deck Card::val is 11 for an ace, the face
\* number for the ranks 2 to 10, and 10 for jack, queen and king, whatever
\* the suit.
C15_CardValues ==
    \A i \in 1 .. Len(m_cards) :
        val(m_cards[i].rankCard) =
            (IF m_cards[i].rankCard = 0 THEN 11
             ELSE IF m_cards[i].rankCard \in 1 .. 9 THEN m_cards[i].rankCard + 1
             ELSE 10)

\* all 52 cards of a deck have been dealt
C15_Witness ==
    /\ Len(returned) = 52 /\ ~assertFailed
    /\ {returned[i] : i \in 1 .. 52} = {Card(r, s) : r \in allRank, s \in allSuits}

\* C17: in a game the deck is shuffled once, before the first deal; afterwards
\* the cursor only grows, by one for every card dealt, and no rank is dealt
\* more often than the deck holds it: the cards dealt are different cards.
C17_ShuffledOnceCursorGrows ==
    /\ [](/\ shuffles = (IF pc = "Setup" THEN 0 ELSE 1)
          /\ pc = "Setup" => m_nextCardIndex = 0
          /\ \A r \in allRank : undealt[r] \in 0 .. maxSuits
          /\ m_nextCardIndex = (maxRank * maxSuits) - (undealt[0] + undealt[1]
                + undealt[2] + undealt[3] + undealt[4] + undealt[5] + undealt[6]
                + undealt[7] + undealt[8] + undealt[9] + undealt[10]
                + undealt[11] + undealt[12]))
    /\ [][/\ m_nextCardIndex' >= m_nextCardIndex
          /\ pc # "Setup" => shuffles' = shuffles]_vars

C17_Witness ==
    /\ pc = "Resolved" /\ shuffles = 1 /\ m_nextCardIndex = 12
    /\ undealt[rank_ace] = 0 /\ undealt[1] = 0

\* C19: after any sequence of buy calls the gold is not negative, no
\* inventory count is negative, and the gold plus the cost of everything in
\* the inventory is the gold the player started with.
C19_GoldConserved ==
    /\ m_gold >= 0
    /\ \A t \in typePotion : m_inventory[t] >= 0
    /\ m_gold + 20 * m_inventory[0] + 30 * m_inventory[1] + 12 * m_inventory[2]
            + 50 * m_inventory[3] = startGold

\* the player bought until nothing could be afforded
C19_Witness ==
    /\ pc = "Shop" /\ ~success /\ m_gold < 12
    /\ m_inventory[3] = 1 /\ m_inventory[2] >= 1 /\ startGold = 120

\* C20: buy(type) returns false iff the gold is less than the cost of the
\* type, and then changes nothing; when it returns true the gold is less by
\* exactly the cost, the count of the type more by exactly one, and the other
\* counts are unchanged.
C20_BuyContract ==
    [][(pc = "Shop" /\ which' \in typePotion) =>
        /\ success' = FALSE <=> m_gold < costPotion[which' + 1]
        /\ success' = FALSE => (m_gold' = m_gold /\ m_inventory' = m_inventory)
        /\ success' = TRUE =>
            /\ m_gold' = m_gold - costPotion[which' + 1]
            /\ m_inventory'[which'] = m_inventory[which'] + 1
            /\ \A t \in typePotion \ {which'} : m_inventory'[t] = m_inventory[t]]_vars

\* a buy was refused with the gold one short of the cost
C20_Witness ==
    /\ pc = "Shop" /\ which = 3 /\ ~success
    /\ m_gold = 49 /\ m_inventory[3] = 1
====
